---------------------------- MODULE Spec2Model ----------------------------
(***************************************************************************)
(* Target-size-constrained encoding search of the file compressor:         *)
(*   js/imageProcessor.js  compressImage, processImage                     *)
(*   js/pdfProcessor.js    compressFullPDF, extractAndProcessPages,        *)
(*                         convertImageToPDF                               *)
(*                                                                         *)
(* One request is modelled at a time.  The encoder (canvas.toBlob, the     *)
(* document save) is an external capability: every encode returns a size   *)
(* chosen from Sizes, independently of the quality asked for.              *)
(*                                                                         *)
(* Quality values are kept in hundredths (0.92 is 92), byte sizes are      *)
(* bytes.  A comparison against a fractional threshold is written with     *)
(* both sides multiplied out (size >= target * 0.85 is                     *)
(* size * 100 >= target * 85).                                             *)
(***************************************************************************)
EXTENDS Integers, Sequences, FiniteSets, TLC

\* ------------------------------------------------------------------ bounds
MaxPages == 2
\* processFile runs of one file, and downloadAll calls, in flight at once
MaxRunsPerFile == 2
MaxZips == 1

\* Byte sizes an encode may return.  With a 1 KB target they are: far under
\* the band, under the band, exactly on target (the closed end of the band),
\* over target, over twice the target.
Sizes == {400, 800, 1024, 1500, 2100}
Formats == {"image/jpeg", "image/png"}
TargetKBs == {1}

\* ------------------------------------------------------- program constants
Infinity == 1000000000
minQuality == 30
maxIterations == 25
startQuality == 92
maxQuality == 98

\* ------------------------------------------------------------------- state
VARIABLES
    fn,          \* public entry point that is running
    pc,          \* position inside it
    file,        \* the input File: size and MIME type
    preset,      \* maxSizeKB, format, widthPx, heightPx
    img,         \* decoded source: width, height
    optimalDims, \* processImage: planned dimensions
    stage,       \* which call of compressImage runs: convert, main, retry
    quality,     \* search local
    iteration,   \* search local
    bestBlob,    \* search local
    bestSize,    \* search local
    bestQuality, \* search local
    result,      \* value the search resolved with
    firstResult, \* processImage: result of the main search, kept for the retry
    outcome,     \* value returned by the entry point
    progress,    \* last value passed to onProgress (-1: none yet)
    hundreds,    \* history: how many times onProgress was given 100
    encodes,     \* history: encodes started in the current search run
    testEncoded, \* history: the test thumbnail was encoded
    runs,        \* history: search runs started by this request
    maxUnder,    \* history: largest encode of the run with size <= target
    lastBlob,    \* history: blob handed to the callback that ended the run
    pageCount,        \* document: number of pages
    pagesToProcess,   \* extractAndProcessPages: page numbers to process
    pageSpec,         \* extractAndProcessPages: the pageSpec argument
    idx,              \* extractAndProcessPages: loop index; compressFullPDF: i
    results,          \* extractAndProcessPages: outcomes pushed so far
    resultBlob,       \* extractAndProcessPages, convertImageToPDF: local
    pageQualities,    \* history: quality each page of the current attempt
                      \* of compressFullPDF was rendered at
    state,            \* app: state.targetSizeKB, state.outputFormat
    fileObjs,         \* app: per file, processed and the stored results
    cards,            \* app: per file card, the Convert button
    progressHidden,   \* app: progressSection carries the class 'hidden'
    inFlight,         \* app: per file, the processFile runs not yet ended
    zips              \* app: downloadAll calls whose archive is being made

vars == <<fn, pc, file, preset, img, optimalDims, stage, quality, iteration,
          bestBlob, bestSize, bestQuality, result, firstResult, outcome,
          progress, hundreds, encodes, testEncoded, runs, maxUnder,
          lastBlob, pageCount, pagesToProcess, pageSpec, idx, results, resultBlob,
          pageQualities, state, fileObjs, cards, progressHidden, inFlight,
          zips>>

procVars == <<fn, pc, file, preset, img, optimalDims, stage, quality,
              iteration, bestBlob, bestSize, bestQuality, result, firstResult,
              outcome, progress, hundreds, encodes, testEncoded, runs,
              maxUnder, lastBlob, pageCount, pagesToProcess, pageSpec, idx,
              results, resultBlob, pageQualities>>
appVars == <<state, fileObjs, cards, progressHidden, inFlight, zips>>

searchVars == <<quality, iteration, bestBlob, bestSize, bestQuality>>
histVars == <<encodes, maxUnder, lastBlob>>
inputVars == <<file, preset, img>>
docVars == <<pageCount, pagesToProcess, pageSpec, idx, results, resultBlob,
             pageQualities>>

NoBlob == [kind |-> "null", size |-> 0, quality |-> 0]
EncodedBlob(s, q) == [kind |-> "encode", size |-> s, quality |-> q]
FileBlob(f) == [kind |-> "file", size |-> f.size, quality |-> 0]

NoResult == [blob |-> NoBlob, size |-> 0, quality |-> 0, warning |-> FALSE,
             set |-> FALSE]
Result(b, s, q, w) == [blob |-> b, size |-> s, quality |-> q, warning |-> w,
                       set |-> TRUE]

NoOutcome == [set |-> FALSE]
NoDims == [width |-> 0, height |-> 0]
\* NaN x NaN, which the planners return when targetPixels is not positive
NaNDims == [width |-> -1, height |-> -1]
Dims(w, h) == [width |-> w, height |-> h]
NoFile == [size |-> 0, type |-> "none"]
NoPageSpec == [all |-> FALSE, page |-> 0]
NoPreset == [maxSizeKB |-> 0, format |-> "none", widthPx |-> 0, heightPx |-> 0]

Min(a, b) == IF a < b THEN a ELSE b
Max(a, b) == IF a > b THEN a ELSE b

\* a || b of JavaScript on numbers
OrElse(a, b) == IF a # 0 THEN a ELSE b

targetSizeBytes == preset.maxSizeKB * 1024

\* the file cards on the page
FileIds == {1, 2}

\* addFiles: processed false, results []
NoFileObj == [processed |-> FALSE, results |-> [len |-> 0, preset |-> NoPreset, clicked |-> [targetSizeKB |-> 0, outputFormat |-> "none"]]]

\* the page script with its defaults and nothing started
AppAtRest ==
    /\ state = [targetSizeKB |-> 200, outputFormat |-> "image/jpeg"]
    /\ fileObjs = [f \in FileIds |-> NoFileObj]
    /\ cards = [f \in FileIds |-> [disabled |-> FALSE]]
    /\ progressHidden = TRUE
    /\ inFlight = [f \in FileIds |-> <<>>]
    /\ zips = 0

\* no entry point of the processors has been called
InitProcessors ==
    /\ fn = "none"
    /\ pc = "idle"
    /\ file = NoFile
    /\ preset = NoPreset
    /\ img = NoDims
    /\ optimalDims = NoDims
    /\ stage = "none"
    /\ quality = 0
    /\ iteration = 0
    /\ bestBlob = NoBlob
    /\ bestSize = 0
    /\ bestQuality = 0
    /\ result = NoResult
    /\ firstResult = NoResult
    /\ outcome = NoOutcome
    /\ progress = -1
    /\ hundreds = 0
    /\ encodes = 0
    /\ testEncoded = FALSE
    /\ runs = 0
    /\ maxUnder = 0
    /\ lastBlob = NoBlob
    /\ pageCount = 0
    /\ pagesToProcess = <<>>
    /\ pageSpec = NoPageSpec
    /\ idx = 0
    /\ results = <<>>
    /\ resultBlob = NoBlob
    /\ pageQualities = <<>>

Init == InitProcessors /\ AppAtRest


\* ---------------------------------------------------------------- inputs
Images == {Dims(400, 300)}
TestSizes == {200}

\* processFile: the max-dimension box that goes with a target size
PresetFor(kb, fmt) ==
    LET box == IF kb <= 50 THEN Dims(400, 533)
               ELSE IF kb <= 100 THEN Dims(600, 800)
               ELSE IF kb <= 200 THEN Dims(800, 1067)
               ELSE IF kb <= 500 THEN Dims(1000, 1333)
               ELSE Dims(1200, 1600)
    IN [maxSizeKB |-> kb, format |-> fmt,
        widthPx |-> box.width, heightPx |-> box.height]

\* ------------------------------------------------------ DimensionPlanner
\* A planned side is an exact real: n/d, or sqrt(n/d) when sq is set.
Rat(n, d) == [n |-> n, d |-> d, sq |-> FALSE]
Sqrt(n, d) == [n |-> n, d |-> d, sq |-> TRUE]

\* x > c and x < c for a whole number c
Greater(x, c) == IF x.sq THEN x.n > c * c * x.d ELSE x.n > c * x.d
Less(x, c) == IF x.sq THEN x.n < c * c * x.d ELSE x.n < c * x.d

\* Math.round(x)
Round(x) ==
    IF x.sq
    THEN CHOOSE k \in 0..4000 :
             /\ (2 * k - 1) * (2 * k - 1) * x.d <= 4 * x.n \/ k = 0
             /\ 4 * x.n < (2 * k + 1) * (2 * k + 1) * x.d
    ELSE (2 * x.n + x.d) \div (2 * x.d)

RECURSIVE GCD(_, _)
GCD(a, b) == IF b = 0 THEN a ELSE GCD(b, a % b)

\* floor(a * b / c), the fraction reduced first so that no intermediate
\* product leaves the integers of the checker
MulDiv(a, b, c) ==
    LET g1 == GCD(a, c)
        a1 == a \div g1
        c1 == c \div g1
        g2 == GCD(b, c1)
        b1 == b \div g2
        c2 == c1 \div g2
    IN (a1 \div c2) * b1 + ((a1 % c2) * b1) \div c2

minDimension == 200

calculateOptimalDimensions(originalWidth, originalHeight, currentSize, targetSize, maxWidth, maxHeight) ==
    LET originalPixels == originalWidth * originalHeight
        \* floor(originalPixels * targetSize / (currentSize * 1.2))
        targetPixels == MulDiv(originalPixels * 5, targetSize, currentSize * 6)
        g == GCD(originalWidth, originalHeight)
        a == originalWidth \div g      \* aspectRatio = a / b
        b == originalHeight \div g
        h0 == Sqrt(targetPixels * b, a)
        w0 == Sqrt(targetPixels * a, b)
        c1 == Greater(w0, maxWidth)
        w1 == IF c1 THEN Rat(maxWidth, 1) ELSE w0
        h1 == IF c1 THEN Rat(maxWidth * b, a) ELSE h0
        c2 == Greater(h1, maxHeight)
        h2 == IF c2 THEN Rat(maxHeight, 1) ELSE h1
        w2 == IF c2 THEN Rat(maxHeight * a, b) ELSE w1
        small == Less(w2, minDimension) \/ Less(h2, minDimension)
        \* scale = minDimension / (the smaller side); both sides times scale
        ws == IF a <= b THEN Rat(minDimension, 1) ELSE Rat(minDimension * a, b)
        hs == IF a <= b THEN Rat(minDimension * b, a) ELSE Rat(minDimension, 1)
        w3 == IF ~small THEN w2
              ELSE IF Greater(ws, maxWidth) THEN Rat(maxWidth, 1) ELSE ws
        h3 == IF ~small THEN h2
              ELSE IF Greater(hs, maxHeight) THEN Rat(maxHeight, 1) ELSE hs
    IN IF targetPixels <= 0 THEN NaNDims ELSE Dims(Round(w3), Round(h3))

\* ---------------------------------------------------------- QualitySearch
\* compressImage(canvas, format, targetSizeKB, onProgress)

\* blob.size <= targetSizeBytes && blob.size >= minTargetBytes
InBand(size, target) == size <= target /\ size * 100 >= target * 85

\* blob.size <= targetSizeBytes && blob.size < bestSize
TracksBest(size, target, best) == size <= target /\ size < best

\* mutant: the early exit is open in every round
EarlyExitAnyRound(it, size, target) == size * 200 < target * 85

\* iteration === 0 && blob.size < minTargetBytes * 0.5
EarlyExit(it, size, target) == it = 0 /\ size * 200 < target * 85

\* mutant: steps a tenth as large
ReductionTenth(size, target) == IF size > target * 2 THEN 2 ELSE 1

\* mutant: the small step whatever the distance to the target
ReductionFlat(size, target) == 8

\* blob.size > targetSizeBytes * 2 ? 0.15 : 0.08
Reduction(size, target) == IF size > target * 2 THEN 15 ELSE 8

\* mutant: the lowered quality is not held at the floor
QualityDownUnclamped(q, step, floor) == q - step

\* quality = Math.max(minQuality, quality - reduction)
QualityDown(q, step, floor) == Max(floor, q - step)

\* mutant: the quality is raised without looking at the ceiling
CanRaiseUncapped(size, target, q) == size * 100 < target * 85

\* blob.size < minTargetBytes && quality < 0.98
CanRaise(size, target, q) == size * 100 < target * 85 /\ q < maxQuality

\* a canvas resized to NaN x NaN has no pixels: toBlob delivers null
CanvasEmpty == stage # "convert" /\ optimalDims = NaNDims

\* mutant: the floor result is not flagged
FloorResultUnflagged(blob, q, bBlob, bSize, bQuality) ==
    Result(IF bBlob # NoBlob THEN bBlob ELSE blob,
           OrElse(bSize, blob.size),
           OrElse(bQuality, q),
           FALSE)

\* mutant: the floor result is the current encode, not the tracked best
FloorResultCurrent(blob, q, bBlob, bSize, bQuality) ==
    Result(blob, blob.size, q, TRUE)

\* the value resolved when quality is at the floor and the encode is over
FloorResult(blob, q, bBlob, bSize, bQuality) ==
    Result(IF bBlob # NoBlob THEN bBlob ELSE blob,
           OrElse(bSize, blob.size),
           OrElse(bQuality, q),
           TRUE)

\* the value resolved when iteration reached maxIterations
CapResult(target, bBlob, bSize, bQuality) ==
    IF bBlob # NoBlob
    THEN Result(bBlob, bSize, bQuality, bSize > target)
    ELSE Result(NoBlob, 0, 0, TRUE)

\* Math.min(100, Math.round((iteration / maxIterations) * 100))
SearchProgress(it) ==
    Min(100, (2 * 100 * it + maxIterations) \div (2 * maxIterations))

\* new Promise(...) runs tryCompress() at once, with iteration = 0: the
\* first encode is started inside the call
StartCompressImage(st) ==
    /\ stage' = st
    /\ quality' = startQuality
    /\ iteration' = 0
    /\ bestBlob' = NoBlob
    /\ bestSize' = Infinity
    /\ bestQuality' = startQuality
    /\ result' = NoResult
    /\ pc' = "toBlob"
    /\ encodes' = 1
    /\ runs' = runs + 1
    /\ maxUnder' = 0
    /\ lastBlob' = NoBlob

\* onProgress of the running search: the retry is given () => {}
Report(last, st, v) == IF st = "retry" THEN last ELSE v

\* the callback of canvas.toBlob inside tryCompress
ToBlobCallback(size) ==
    /\ fn = "processImage"
    /\ pc = "toBlob"
    /\ ~CanvasEmpty
    /\ LET target == targetSizeBytes
           blob == EncodedBlob(size, quality)
           track == TracksBest(size, target, bestSize)
           nBlob == IF track THEN blob ELSE bestBlob
           nSize == IF track THEN size ELSE bestSize
           nQuality == IF track THEN quality ELSE bestQuality
           Resolve(r, bb, bs, bq) ==
               /\ result' = r
               /\ pc' = "resolved"
               /\ lastBlob' = blob
               /\ bestBlob' = bb
               /\ bestSize' = bs
               /\ bestQuality' = bq
               /\ UNCHANGED <<quality, iteration>>
           Again(q) ==
               /\ quality' = q
               /\ iteration' = iteration + 1
               /\ pc' = "timeout"
               /\ bestBlob' = nBlob
               /\ bestSize' = nSize
               /\ bestQuality' = nQuality
               /\ UNCHANGED <<result, lastBlob>>
       IN /\ progress' = Report(progress, stage, SearchProgress(iteration))
          /\ maxUnder' = IF size <= target THEN Max(maxUnder, size)
                         ELSE maxUnder
          /\ IF InBand(size, target)
             THEN Resolve(Result(blob, size, quality, FALSE),
                          blob, size, quality)
             ELSE IF EarlyExit(iteration, size, target)
             THEN Resolve(Result(blob, size, quality, FALSE),
                          nBlob, nSize, nQuality)
             ELSE IF size > target
             THEN IF quality <= minQuality
                  THEN Resolve(FloorResult(blob, quality, nBlob, nSize,
                                           nQuality),
                               nBlob, nSize, nQuality)
                  ELSE Again(QualityDown(quality, Reduction(size, target),
                                         minQuality))
             ELSE IF CanRaise(size, target, quality)
             THEN Again(Min(maxQuality, quality + 5))
             ELSE Resolve(Result(blob, size, quality, size > target),
                          nBlob, nSize, nQuality)
    /\ UNCHANGED <<fn, inputVars, optimalDims, stage, firstResult, outcome,
                   hundreds, encodes, testEncoded, runs, docVars>>
    /\ UNCHANGED appVars

\* the encoder delivers no blob: the callback reports progress, then
\* blob.size throws a TypeError inside the callback, outside the promise
\* executor: resolve and reject are never called and no further
\* tryCompress is scheduled
ToBlobCallbackNull ==
    /\ fn = "processImage"
    /\ pc = "toBlob"
    /\ progress' = Report(progress, stage, SearchProgress(iteration))
    /\ pc' = "callbackThrew"
    /\ UNCHANGED <<fn, inputVars, optimalDims, stage, searchVars, result,
                   firstResult, outcome, hundreds, histVars, testEncoded,
                   runs, docVars>>
    /\ UNCHANGED appVars

\* mutant: the cap is tested one round late
CapReachedLate(it) == it > maxIterations

\* iteration >= maxIterations
CapReached(it) == it >= maxIterations

\* mutant: tryCompress hands the canvas to the encoder twice
TryCompressTwice ==
    /\ fn = "processImage"
    /\ pc = "timeout"
    /\ IF CapReached(iteration)
       THEN /\ result' = CapResult(targetSizeBytes, bestBlob, bestSize,
                                   bestQuality)
            /\ pc' = "resolved"
            /\ UNCHANGED encodes
       ELSE /\ pc' = "toBlob"
            /\ encodes' = encodes + 2
            /\ UNCHANGED result
    /\ UNCHANGED <<fn, inputVars, optimalDims, stage, searchVars, firstResult,
                   outcome, progress, hundreds, testEncoded, runs, maxUnder,
                   lastBlob, docVars>>
    /\ UNCHANGED appVars

\* setTimeout(tryCompress, 0): the next round of the search
TryCompress ==
    /\ fn = "processImage"
    /\ pc = "timeout"
    /\ IF CapReached(iteration)
       THEN /\ result' = CapResult(targetSizeBytes, bestBlob, bestSize,
                                   bestQuality)
            /\ pc' = "resolved"
            /\ UNCHANGED encodes
       ELSE /\ pc' = "toBlob"
            /\ encodes' = encodes + 1
            /\ UNCHANGED result
    /\ UNCHANGED <<fn, inputVars, optimalDims, stage, searchVars, firstResult,
                   outcome, progress, hundreds, testEncoded, runs, maxUnder,
                   lastBlob, docVars>>
    /\ UNCHANGED appVars

\* ------------------------------------------------- CompressionPipeline
\* processImage(file, preset, onProgress)

Outcome(blob, originalSize, newSize, originalDimensions, newDimensions, warning, alreadyOptimal) ==
    [set |-> TRUE, blob |-> blob, originalSize |-> originalSize,
     newSize |-> newSize, originalDimensions |-> originalDimensions,
     newDimensions |-> newDimensions, warning |-> warning,
     alreadyOptimal |-> alreadyOptimal, pageCount |-> 0, pageNum |-> 0]

\* the outcome of a document entry point: pageCount and pageNum are set
DocOutcome(o, count, num) == [o EXCEPT !.pageCount = count, !.pageNum = num]

\* mutant: a file exactly on the budget is not within it
WithinLimitStrict(originalSize, target) == originalSize < target

\* originalSize <= targetSizeBytes
WithinLimit(originalSize, target) == originalSize <= target

\* the call up to its first await on an encode
ProcessImage(f, p, im) ==
    /\ pc = "idle"
    /\ fn' = "processImage"
    /\ file' = f
    /\ preset' = p
    /\ img' = im
    /\ progress' = 20          \* onProgress(10); onProgress(20)
    /\ IF WithinLimit(f.size, p.maxSizeKB * 1024)
       THEN IF f.type = p.format
            THEN /\ outcome' = Outcome(FileBlob(f), f.size, f.size, im, im,
                                       FALSE, TRUE)
                 /\ pc' = "returned"
                 /\ UNCHANGED <<stage, searchVars, result, histVars, runs>>
            ELSE \* resizeToExact(img, img.width, img.height)
                 /\ StartCompressImage("convert")
                 /\ UNCHANGED outcome
       ELSE \* the test thumbnail is handed to the encoder
            /\ pc' = "testBlob"
            /\ UNCHANGED <<stage, searchVars, result, histVars, runs,
                           outcome>>
    /\ UNCHANGED <<optimalDims, firstResult, testEncoded, hundreds, docVars>>
    /\ UNCHANGED appVars

\* const testScale = 0.2: 1 / (testScale * testScale)
invTestScaleSq == 25

\* the test encode is delivered: plan, resize, start the search
TestBlobCallback(size) ==
    /\ fn = "processImage"
    /\ pc = "testBlob"
    /\ testEncoded' = TRUE
    /\ progress' = 55          \* onProgress(35); onProgress(45); onProgress(55)
    /\ optimalDims' = calculateOptimalDimensions(
                          img.width, img.height, size * invTestScaleSq,
                          targetSizeBytes, preset.widthPx, preset.heightPx)
    /\ StartCompressImage("main")
    /\ UNCHANGED <<fn, inputVars, firstResult, outcome, hundreds, docVars>>
    /\ UNCHANGED appVars

\* format-conversion path: the await of compressImage returns
ConvertReturn ==
    /\ fn = "processImage"
    /\ pc = "resolved"
    /\ stage = "convert"
    /\ outcome' = Outcome(result.blob, file.size, result.size, img, img,
                          result.warning, ~result.warning)
    /\ pc' = "returned"
    /\ UNCHANGED <<fn, inputVars, optimalDims, stage, searchVars, result,
                   firstResult, progress, hundreds, histVars, testEncoded,
                   runs, docVars>>
    /\ UNCHANGED appVars

\* result.size > targetSizeBytes && result.size > originalSize * 0.5
NeedsRetry(size, target, originalSize) ==
    size > target /\ size * 2 > originalSize

\* Math.max(100, Math.floor(side * Math.sqrt(target / size) * 0.9))
RetrySide(side, target, size) ==
    LET scaled == IF size = Infinity THEN 0
                  ELSE CHOOSE k \in 0..side :
                           /\ k * k * 100 * size <= side * side * 81 * target
                           /\ (k + 1) * (k + 1) * 100 * size
                                  > side * side * 81 * target
    IN Max(100, scaled)

\* main path: the await of the first compressImage returns
MainContinue ==
    /\ fn = "processImage"
    /\ pc = "resolved"
    /\ stage = "main"
    /\ progress' = 100
    /\ hundreds' = hundreds + 1
    /\ IF NeedsRetry(result.size, targetSizeBytes, file.size)
       THEN /\ firstResult' = result
            /\ StartCompressImage("retry")
            /\ UNCHANGED outcome
       ELSE /\ outcome' = Outcome(result.blob, file.size, result.size, img,
                                  optimalDims, result.size > targetSizeBytes,
                                  FALSE)
            /\ pc' = "returned"
            /\ UNCHANGED <<stage, searchVars, result, firstResult, histVars,
                           runs>>
    /\ UNCHANGED <<fn, inputVars, optimalDims, testEncoded, docVars>>
    /\ UNCHANGED appVars

\* retryResult.size < result.size
RetryWins(retrySize, firstSize) == retrySize < firstSize

\* fallback path: the await of the second compressImage returns
RetryReturn ==
    /\ fn = "processImage"
    /\ pc = "resolved"
    /\ stage = "retry"
    /\ LET retryWidth == RetrySide(optimalDims.width, targetSizeBytes,
                                   firstResult.size)
           retryHeight == RetrySide(optimalDims.height, targetSizeBytes,
                                    firstResult.size)
       IN outcome' =
            IF RetryWins(result.size, firstResult.size)
            THEN Outcome(result.blob, file.size, result.size, img,
                         Dims(retryWidth, retryHeight),
                         result.size > targetSizeBytes, FALSE)
            ELSE Outcome(firstResult.blob, file.size, firstResult.size, img,
                         optimalDims, firstResult.size > targetSizeBytes,
                         FALSE)
    /\ pc' = "returned"
    /\ UNCHANGED <<fn, inputVars, optimalDims, stage, searchVars, result,
                   firstResult, progress, hundreds, histVars, testEncoded,
                   runs, docVars>>
    /\ UNCHANGED appVars

\* files within the 1 KB budget (one exactly on it) and one over it
Files == {[size |-> 800, type |-> "image/jpeg"],
          [size |-> 1024, type |-> "image/jpeg"],
          [size |-> 800, type |-> "image/png"],
          [size |-> 1024, type |-> "image/png"],
          [size |-> 5000, type |-> "image/png"]}
Presets == {PresetFor(kb, "image/jpeg") : kb \in TargetKBs}

NextImage ==
    \/ \E f \in Files, p \in Presets, im \in Images : ProcessImage(f, p, im)
    \/ \E s \in TestSizes : TestBlobCallback(s)
    \/ \E s \in Sizes : ToBlobCallback(s)
    \/ TryCompress
    \/ ConvertReturn
    \/ MainContinue
    \/ RetryReturn
    \/ ToBlobCallbackNull

SpecImage == Init /\ [][NextImage]_vars


\* ------------------------------------ PagedDocumentCompressor: whole document
\* compressFullPDF(file, targetSizeKB, onProgress)
pdfStartQuality == 75
maxAttempts == 10
pdfMinQuality == 20
pdfMaxQuality == 85
targetWidth == 595
targetHeight == 842

PdfBlob(s, q) == [kind |-> "pdf", size |-> s, quality |-> q]

\* mutant: the upper end of the band is open
InPdfBandOpen(size, target) == size < target /\ size * 10 >= target * 9

\* blob.size <= targetSizeBytes && blob.size >= targetSizeBytes * 0.9
InPdfBand(size, target) == size <= target /\ size * 10 >= target * 9

\* mutant: the latest attempt is always the one kept
TracksBestPdfLatest(size, target, bBlob, bSize) == TRUE

\* if (size <= target && size > bestSize) ... else if (!bestBlob || size < bestSize)
TracksBestPdf(size, target, bBlob, bSize) ==
    IF size <= target /\ size > bSize THEN TRUE
    ELSE bBlob = NoBlob \/ size < bSize

\* 10 + Math.round((attempt / maxAttempts) * 80)
AttemptProgress(attempt) ==
    10 + (2 * 80 * attempt + maxAttempts) \div (2 * maxAttempts)

A4 == Dims(targetWidth, targetHeight)

\* mutant: the loop runs one attempt more
AttemptsLeftInclusive(attempt) == attempt <= maxAttempts

\* attempt < maxAttempts
AttemptsLeft(attempt) == attempt < maxAttempts

\* the call up to the first page render of attempt 0
CompressFullPDF(f, kb, n) ==
    /\ pc = "idle"
    /\ fn' = "compressFullPDF"
    /\ file' = f
    /\ preset' = PresetFor(kb, "application/pdf")
    /\ pageCount' = n
    /\ quality' = pdfStartQuality
    /\ iteration' = 0
    /\ bestBlob' = NoBlob
    /\ bestSize' = Infinity
    /\ progress' = AttemptProgress(0)   \* onProgress(10); onProgress(10 + 0)
    /\ pc' = "renderPage"
    /\ idx' = 1
    /\ pageQualities' = <<>>
    /\ runs' = runs + 1
    /\ encodes' = 0
    /\ maxUnder' = 0
    /\ UNCHANGED <<img, optimalDims, stage, bestQuality, result, firstResult,
                   outcome, hundreds, testEncoded, lastBlob, pagesToProcess, pageSpec,
                   results, resultBlob>>
    /\ UNCHANGED appVars

\* mutant: pages after the first are rendered at renderPageToImage's
\* default quality
RenderQualityDefault(q, i) == IF i = 1 THEN q ELSE 85

\* the quality argument of renderPageToImage(file, i, quality)
RenderQuality(q, i) == q

\* renderPageToImage(file, i, quality), embedJpg, addPage, drawImage
RenderPageToImage ==
    /\ fn = "compressFullPDF"
    /\ pc = "renderPage"
    /\ pageQualities' = Append(pageQualities, RenderQuality(quality, idx))
    /\ IF idx + 1 <= pageCount
       THEN /\ idx' = idx + 1
            /\ UNCHANGED <<pc, encodes>>
       ELSE /\ pc' = "save"             \* newPdf.save(...) is awaited
            /\ encodes' = encodes + 1   \* one more rebuilt document
            /\ UNCHANGED idx
    /\ UNCHANGED <<fn, inputVars, optimalDims, stage, searchVars, result,
                   firstResult, outcome, progress, hundreds, testEncoded,
                   runs, maxUnder, lastBlob, pageCount, pagesToProcess, pageSpec,
                   results, resultBlob>>
    /\ UNCHANGED appVars

\* the rebuilt document is saved: track, accept, or adjust the quality
PdfSaved(size) ==
    /\ fn = "compressFullPDF"
    /\ pc = "save"
    /\ LET target == targetSizeBytes
           blob == PdfBlob(size, quality)
           track == TracksBestPdf(size, target, bestBlob, bestSize)
           nBlob == IF track THEN blob ELSE bestBlob
           nSize == IF track THEN size ELSE bestSize
           Return(b, sz, w) ==
               /\ outcome' = DocOutcome(Outcome(b, file.size, sz, A4, A4, w,
                                                FALSE), pageCount, 1)
               /\ progress' = 100
               /\ hundreds' = hundreds + 1
               /\ pc' = "returned"
               /\ UNCHANGED <<quality, iteration, idx, pageQualities>>
           Again(q) ==
               /\ quality' = q
               /\ iteration' = iteration + 1
               /\ IF AttemptsLeft(iteration + 1)
                  THEN /\ progress' = AttemptProgress(iteration + 1)
                       /\ pc' = "renderPage"
                       /\ idx' = 1
                       /\ pageQualities' = <<>>
                       /\ UNCHANGED <<outcome, hundreds>>
                  ELSE /\ outcome' = DocOutcome(
                               Outcome(nBlob, file.size, nSize, A4, A4,
                                       nSize > target, FALSE), pageCount, 1)
                       /\ progress' = 100
                       /\ hundreds' = hundreds + 1
                       /\ pc' = "returned"
                       /\ UNCHANGED <<idx, pageQualities>>
       IN /\ bestBlob' = nBlob
          /\ bestSize' = nSize
          /\ maxUnder' = IF size <= target THEN Max(maxUnder, size)
                         ELSE maxUnder
          /\ lastBlob' = blob
          /\ IF InPdfBand(size, target)
             THEN Return(blob, size, FALSE)
             ELSE IF size > target
             THEN IF quality <= pdfMinQuality
                  THEN Return(nBlob, nSize, nSize > target)
                  ELSE Again(QualityDown(quality, 10, pdfMinQuality))
             ELSE IF quality < pdfMaxQuality
                  THEN Again(Min(pdfMaxQuality, quality + 5))
                  ELSE Return(nBlob, nSize, nSize > target)
    /\ UNCHANGED <<fn, inputVars, optimalDims, stage, bestQuality, result,
                   firstResult, encodes, testEncoded, runs, pageCount,
                   pagesToProcess, pageSpec, results, resultBlob>>
    /\ UNCHANGED appVars

PdfFiles == {[size |-> 5000, type |-> "application/pdf"]}

NextFullPDF ==
    \/ \E f \in PdfFiles, kb \in TargetKBs, n \in 1..MaxPages :
           CompressFullPDF(f, kb, n)
    \/ RenderPageToImage
    \/ \E s \in Sizes : PdfSaved(s)

SpecFullPDF == Init /\ [][NextFullPDF]_vars


\* ----------------------------------------------------- convertImageToPDF
\* convertImageToPDF(file, targetSizeKB, onProgress)
toPdfMinQuality == 30
toPdfMaxIterations == 20

\* imageBlob.size <= targetSizeBytes || quality <= minQuality
ToPdfStops(size, target, q) == size <= target \/ q <= toPdfMinQuality

\* while (iterations < maxIterations)
ToPdfLoopRuns(it) == it < toPdfMaxIterations

\* the page that holds the image: 595 wide, at most 842 high
ToPdfPage(im) ==
    LET g == GCD(im.width, im.height)
        a == im.width \div g
        b == im.height \div g
        tall == targetWidth * b > targetHeight * a
    IN IF tall THEN Dims(Round(Rat(targetHeight * a, b)), targetHeight)
       ELSE Dims(targetWidth, Round(Rat(targetWidth * b, a)))

\* the call up to the first encode of the quality loop
ConvertImageToPDF(f, kb, im) ==
    /\ pc = "idle"
    /\ fn' = "convertImageToPDF"
    /\ file' = f
    /\ preset' = PresetFor(kb, "application/pdf")
    /\ img' = im
    /\ progress' = 50       \* onProgress(10); onProgress(30); onProgress(50)
    /\ quality' = startQuality
    /\ iteration' = 0
    /\ resultBlob' = NoBlob
    /\ pc' = "imageBlob"
    /\ encodes' = 1
    /\ runs' = runs + 1
    /\ maxUnder' = 0
    /\ UNCHANGED <<optimalDims, stage, bestBlob, bestSize, bestQuality, result,
                   firstResult, outcome, hundreds, testEncoded, lastBlob,
                   pageCount, pagesToProcess, pageSpec, idx, results, pageQualities>>
    /\ UNCHANGED appVars

\* canvas.toBlob(resolve, 'image/jpeg', quality): the encoding of imageBlob
toPdfEncodeFormat == "image/jpeg"

\* if (file.type === 'image/png') embedPng(dataUrl) else embedJpg(dataUrl)
EmbedOp(type) == IF type = "image/png" THEN "embedPng" ELSE "embedJpg"

\* the document builder parses the bytes as the format of the operation
\* and throws on bytes of another format
EmbedAccepts(op, fmt) == (op = "embedPng") <=> (fmt = "image/png")

\* canvas.toBlob(resolve, 'image/jpeg', quality) is delivered
ImageBlobCallback(size) ==
    /\ fn = "convertImageToPDF"
    /\ pc = "imageBlob"
    /\ resultBlob' = EncodedBlob(size, quality)
    /\ maxUnder' = IF size <= targetSizeBytes THEN Max(maxUnder, size)
                   ELSE maxUnder
    /\ LET Embed ==
               \* onProgress(70); the embed operation is chosen by file.type
               /\ progress' = 70
               /\ stage' = EmbedOp(file.type)
               /\ pc' = IF EmbedAccepts(EmbedOp(file.type), toPdfEncodeFormat)
                        THEN "save" ELSE "threw"
       IN IF ToPdfStops(size, targetSizeBytes, quality)
          THEN /\ Embed
               /\ UNCHANGED <<quality, iteration, encodes>>
          ELSE IF ToPdfLoopRuns(iteration + 1)
          THEN /\ quality' = quality - 10
               /\ iteration' = iteration + 1
               /\ encodes' = encodes + 1
               /\ UNCHANGED <<pc, progress, stage>>
          ELSE /\ quality' = quality - 10
               /\ iteration' = iteration + 1
               /\ Embed
               /\ UNCHANGED encodes
    /\ UNCHANGED <<fn, inputVars, optimalDims, bestBlob, bestSize,
                   bestQuality, result, firstResult, outcome, hundreds,
                   testEncoded, runs, lastBlob, pageCount, pagesToProcess, pageSpec,
                   idx, results, pageQualities>>
    /\ UNCHANGED appVars

\* newPdf.save(...) is delivered: the outcome is built
ToPdfSaved(size) ==
    /\ fn = "convertImageToPDF"
    /\ pc = "save"
    /\ progress' = 100
    /\ hundreds' = hundreds + 1
    /\ outcome' = DocOutcome(
                      Outcome(PdfBlob(size, quality), file.size, size, img,
                              ToPdfPage(img), size > targetSizeBytes, FALSE),
                      1, 1)
    /\ pc' = "returned"
    /\ UNCHANGED <<fn, inputVars, optimalDims, stage, searchVars, result,
                   firstResult, encodes, testEncoded, runs, maxUnder,
                   lastBlob, docVars>>
    /\ UNCHANGED appVars

ImageFiles == {[size |-> 5000, type |-> "image/jpeg"],
               [size |-> 5000, type |-> "image/png"]}

NextToPDF ==
    \/ \E f \in ImageFiles, kb \in TargetKBs, im \in Images :
           ConvertImageToPDF(f, kb, im)
    \/ \E s \in Sizes : ImageBlobCallback(s)
    \/ \E s \in Sizes : ToPdfSaved(s)

SpecToPDF == Init /\ [][NextToPDF]_vars


\* ------------------------------------- PagedDocumentCompressor: per page
\* extractAndProcessPages(file, pageSpec, preset, onProgress)
pageMinQuality == 30
pageMaxIterations == 25
minDim == 150

\* rendered page sizes (floor of the viewport at renderScale)
PageDims == {Dims(600, 800)}
WrapSizes == {1024, 1500}

\* targetPixels, optimalWidth and optimalHeight of a page before the
\* max constraints and the minimum dimensions are applied
PageRawPlan(width, height, testSize, target) ==
    LET originalPixels == width * height
        \* floor(originalPixels * targetSizeBytes / (estimatedFullSize * 1.15))
        targetPixels == MulDiv(originalPixels * 9, target, testSize * 460)
        g == GCD(width, height)
        a == width \div g              \* imgRatio = a / b
        b == height \div g
    IN [targetPixels |-> targetPixels,
        width |-> Sqrt(targetPixels * b, a),
        \* optimalWidth / imgRatio
        height |-> Sqrt(targetPixels * b * b * b, a * a * a)]

\* lines 403-430: the planner written out inside the page loop.
\* estimatedFullSize = testSize / (0.15 * 0.15), buffer 1.15:
\* targetPixels = floor(pixels * target * 9 / (testSize * 460))
PagePlan(width, height, testSize, target, maxWidth, maxHeight) ==
    LET raw == PageRawPlan(width, height, testSize, target)
        targetPixels == raw.targetPixels
        g == GCD(width, height)
        a == width \div g              \* imgRatio = a / b
        b == height \div g
        w0 == raw.width
        h0 == raw.height
        c1 == Greater(w0, maxWidth)
        w1 == IF c1 THEN Rat(maxWidth, 1) ELSE w0
        h1 == IF c1 THEN Rat(maxWidth * b, a) ELSE h0
        c2 == Greater(h1, maxHeight)
        h2 == IF c2 THEN Rat(maxHeight, 1) ELSE h1
        w2 == IF c2 THEN Rat(maxHeight * a, b) ELSE w1
        small == Less(w2, minDim) \/ Less(h2, minDim)
        w3 == IF ~small THEN w2
              ELSE IF a <= b THEN Rat(minDim, 1) ELSE Rat(minDim * a, b)
        h3 == IF ~small THEN h2
              ELSE IF a <= b THEN Rat(minDim * b, a) ELSE Rat(minDim, 1)
    IN IF targetPixels <= 0 THEN NaNDims ELSE Dims(Round(w3), Round(h3))

\* baseProgress + Math.round(idx * progressPerFile)
PageProgress(i, len) == 20 + Round(Rat(i * 70, len))

\* a pageSpec: 'all', or one page number
AllPages == [all |-> TRUE, page |-> 0]
OnePage(k) == [all |-> FALSE, page |-> k]

\* mutant: a single page number is ignored
PagesForFirst(spec, n) == IF spec.all THEN [i \in 1..n |-> i] ELSE <<1>>

\* pagesToProcess for a pageSpec
PagesFor(spec, n) == IF spec.all THEN [i \in 1..n |-> i] ELSE <<spec.page>>

\* A blob of the page loop.  The loop writes bestQuality and never reads it,
\* and no quality leaves it: its blobs are kept by byte length alone and
\* bestQuality stays as initialised.
PageBlob(s) == [kind |-> "encode", size |-> s, quality |-> 0]

\* if (bestBlob) resultBlob = bestBlob
UseBest(bBlob, blob) == IF bBlob # NoBlob THEN bBlob ELSE blob

\* while (iterations < maxIterations)
PageLoopRuns(it) == it < pageMaxIterations

\* the call up to the render of the first page
ExtractAndProcessPages(f, spec, p, n) ==
    /\ pc = "idle"
    /\ fn' = "extractAndProcessPages"
    /\ file' = f
    /\ preset' = p
    /\ pageCount' = n
    /\ pagesToProcess' = PagesFor(spec, n)
    /\ pageSpec' = spec
    /\ results' = <<>>
    /\ idx' = 0
    /\ progress' = PageProgress(0, Len(PagesFor(spec, n)))
    /\ pc' = "renderCanvas"
    /\ UNCHANGED <<img, optimalDims, stage, searchVars, result, firstResult,
                   outcome, hundreds, histVars, testEncoded, runs,
                   resultBlob, pageQualities>>
    /\ UNCHANGED appVars

\* renderPageToCanvas resolves; the test thumbnail is handed to the encoder
PageRendered(dims) ==
    /\ fn = "extractAndProcessPages"
    /\ pc = "renderCanvas"
    /\ img' = dims
    /\ pc' = "pageTestBlob"
    /\ UNCHANGED <<fn, file, preset, optimalDims, stage, searchVars, result,
                   firstResult, outcome, progress, hundreds, histVars,
                   testEncoded, runs, docVars>>
    /\ UNCHANGED appVars

\* renderPageToCanvas rejects (getPage or render fails): the await at the
\* top of the loop body is in no try block, so the call rejects and the
\* results collected so far are dropped with it
PageRenderFails ==
    /\ fn = "extractAndProcessPages"
    /\ pc = "renderCanvas"
    /\ pc' = "rejected"
    /\ UNCHANGED <<fn, inputVars, optimalDims, stage, searchVars, result,
                   firstResult, outcome, progress, hundreds, histVars,
                   testEncoded, runs, docVars>>
    /\ UNCHANGED appVars

\* the test encode is delivered: plan, resize, start the quality loop
PageTestBlobCallback(size) ==
    /\ fn = "extractAndProcessPages"
    /\ pc = "pageTestBlob"
    /\ testEncoded' = TRUE
    /\ optimalDims' = PagePlan(img.width, img.height, size, targetSizeBytes,
                               preset.widthPx, preset.heightPx)
    /\ quality' = startQuality
    /\ iteration' = 0
    /\ bestBlob' = NoBlob
    /\ bestSize' = Infinity
    /\ bestQuality' = startQuality
    /\ resultBlob' = NoBlob
    /\ pc' = "pageToBlob"
    /\ encodes' = 1
    /\ runs' = runs + 1
    /\ maxUnder' = 0
    /\ lastBlob' = NoBlob
    /\ UNCHANGED <<fn, inputVars, stage, result, firstResult, outcome,
                   progress, hundreds, pageCount, pagesToProcess, pageSpec, idx,
                   results, pageQualities>>
    /\ UNCHANGED appVars

\* results.push({...}) and the step to the next page, or the return
PushResult(blob) ==
    /\ results' = Append(results,
           DocOutcome(Outcome(blob, file.size, blob.size, img, optimalDims,
                              blob.size > targetSizeBytes, FALSE),
                      pageCount, pagesToProcess[idx + 1]))
    /\ idx' = idx + 1
    /\ IF idx + 1 < Len(pagesToProcess)
       THEN /\ progress' = PageProgress(idx + 1, Len(pagesToProcess))
            /\ pc' = "renderCanvas"
            /\ UNCHANGED hundreds
       ELSE /\ progress' = 100
            /\ hundreds' = hundreds + 1
            /\ pc' = "returned"

\* one round of the while loop: the encode it awaited is delivered
PageToBlobCallback(size) ==
    /\ fn = "extractAndProcessPages"
    /\ pc = "pageToBlob"
    /\ optimalDims # NaNDims
    /\ LET target == targetSizeBytes
           blob == PageBlob(size)
           inBand == InBand(size, target)
           track == inBand \/ TracksBest(size, target, bestSize)
           nBlob == IF track THEN blob ELSE bestBlob
           nSize == IF track THEN size ELSE bestSize
           Break ==
               /\ resultBlob' = UseBest(nBlob, blob)
               /\ lastBlob' = blob
               /\ UNCHANGED <<quality, iteration, encodes>>
               /\ IF preset.format = "application/pdf"
                  THEN /\ pc' = "pageWrap"
                       /\ UNCHANGED <<results, idx, progress, hundreds>>
                  ELSE PushResult(UseBest(nBlob, blob))
           Again(q) ==
               /\ quality' = q
               /\ iteration' = iteration + 1
               /\ IF PageLoopRuns(iteration + 1)
                  THEN /\ encodes' = encodes + 1
                       /\ UNCHANGED <<pc, resultBlob, lastBlob, results, idx,
                                      progress, hundreds>>
                  ELSE /\ resultBlob' = UseBest(nBlob, blob)
                       /\ lastBlob' = blob
                       /\ UNCHANGED encodes
                       /\ IF preset.format = "application/pdf"
                          THEN /\ pc' = "pageWrap"
                               /\ UNCHANGED <<results, idx, progress,
                                              hundreds>>
                          ELSE PushResult(UseBest(nBlob, blob))
       IN /\ bestBlob' = nBlob
          /\ bestSize' = nSize
          /\ maxUnder' = IF size <= target THEN Max(maxUnder, size)
                         ELSE maxUnder
          /\ IF inBand THEN Break
             ELSE IF EarlyExit(iteration, size, target) THEN Break
             ELSE IF size > target
             THEN IF quality <= pageMinQuality THEN Break
                  ELSE Again(QualityDown(quality, Reduction(size, target),
                                         pageMinQuality))
             ELSE IF CanRaise(size, target, quality)
             THEN Again(Min(maxQuality, quality + 5))
             ELSE Break
    /\ UNCHANGED <<fn, inputVars, optimalDims, stage, bestQuality, result,
                   firstResult, outcome, testEncoded, runs, pageCount,
                   pagesToProcess, pageSpec, pageQualities>>
    /\ UNCHANGED appVars

\* toBlob delivers null: resultBlob.size throws inside the async function,
\* which rejects
PageToBlobNull ==
    /\ fn = "extractAndProcessPages"
    /\ pc = "pageToBlob"
    /\ pc' = "rejected"
    /\ UNCHANGED <<fn, inputVars, optimalDims, stage, searchVars, result,
                   firstResult, outcome, progress, hundreds, histVars,
                   testEncoded, runs, docVars>>
    /\ UNCHANGED appVars

\* the one-page document that wraps the image is saved
PageWrapped(size) ==
    /\ fn = "extractAndProcessPages"
    /\ pc = "pageWrap"
    /\ resultBlob' = PdfBlob(size, 0)
    /\ PushResult(PdfBlob(size, 0))
    /\ UNCHANGED <<fn, inputVars, optimalDims, stage, searchVars, result,
                   firstResult, outcome, histVars, testEncoded, runs,
                   pageCount, pagesToProcess, pageSpec, pageQualities>>
    /\ UNCHANGED appVars

PageSpecs(n) == {AllPages} \cup {OnePage(k) : k \in 1..n}
PagePresets == {PresetFor(kb, fmt) : kb \in TargetKBs,
                                     fmt \in {"image/jpeg", "application/pdf"}}

NextPages ==
    \/ \E f \in PdfFiles, n \in 1..MaxPages, p \in PagePresets :
           \E spec \in PageSpecs(n) : ExtractAndProcessPages(f, spec, p, n)
    \/ \E d \in PageDims : PageRendered(d)
    \/ \E s \in TestSizes : PageTestBlobCallback(s)
    \/ \E s \in Sizes : PageToBlobCallback(s)
    \/ \E s \in WrapSizes : PageWrapped(s)
    \/ PageRenderFails
    \/ PageToBlobNull

SpecPages == Init /\ [][NextPages]_vars


\* ------------------------------------------------------ the two planners
\* calculateOptimalDimensions and the per-page planner as functions of
\* their arguments: the source, the box and the size of the test encode.
PlanImages == {Dims(400, 300), Dims(300, 400), Dims(640, 640),
               Dims(1200, 900), Dims(1000, 100), Dims(100, 1000),
               Dims(2000, 1000), Dims(200, 1200), Dims(600, 800),
               Dims(150, 150), Dims(1800, 1200), Dims(1200, 200)}
PlanKBs == {1, 60, 150}
PlanTestSizes == {400, 900, 2000, 5000}

InitPlanner ==
    /\ fn = "none"
    /\ pc = "idle"
    /\ file = NoFile
    /\ preset \in {PresetFor(kb, "image/jpeg") : kb \in PlanKBs}
    /\ img \in PlanImages
    /\ optimalDims = NoDims
    /\ stage = "none"
    /\ quality = 0
    /\ iteration = 0
    /\ bestBlob = NoBlob
    /\ bestSize = 0
    /\ bestQuality = 0
    /\ result = NoResult
    /\ firstResult = NoResult
    /\ outcome = NoOutcome
    /\ progress = -1
    /\ hundreds = 0
    /\ encodes = 0
    /\ testEncoded = FALSE
    /\ runs = 0
    /\ maxUnder = 0
    /\ lastBlob = NoBlob
    /\ pageCount = 0
    /\ pagesToProcess = <<>>
    /\ pageSpec = NoPageSpec
    /\ idx = 0
    /\ results = <<>>
    /\ resultBlob = NoBlob
    /\ pageQualities = <<>>
    /\ AppAtRest

\* processImage, step 2: the plan for an image whose test encode has `size`
PlanImage(size) ==
    /\ pc = "idle"
    /\ img # NoDims
    /\ fn' = "calculateOptimalDimensions"
    /\ pc' = "planned"
    /\ optimalDims' = calculateOptimalDimensions(
                          img.width, img.height, size * invTestScaleSq,
                          targetSizeBytes, preset.widthPx, preset.heightPx)
    /\ UNCHANGED <<inputVars, stage, searchVars, result, firstResult,
                   outcome, progress, hundreds, histVars, testEncoded, runs,
                   docVars>>
    /\ UNCHANGED appVars

\* extractAndProcessPages: the plan for a page whose test encode has `size`
PlanPage(size) ==
    /\ pc = "idle"
    /\ img # NoDims
    /\ fn' = "pagePlan"
    /\ pc' = "planned"
    /\ optimalDims' = PagePlan(img.width, img.height, size, targetSizeBytes,
                               preset.widthPx, preset.heightPx)
    /\ UNCHANGED <<inputVars, stage, searchVars, result, firstResult,
                   outcome, progress, hundreds, histVars, testEncoded, runs,
                   docVars>>
    /\ UNCHANGED appVars

NextPlanner ==
    \/ \E s \in PlanTestSizes : PlanImage(s)
    \/ \E s \in PlanTestSizes : PlanPage(s)

SpecPlanner == InitPlanner /\ [][NextPlanner]_vars


\* ------------------------------------------- calls with an invalid preset
\* The four entry points called with a target size that is not positive,
\* and the steps such calls go on to take.
InvalidKBs == {0, -1}

NextInvalid ==
    \/ \E f \in Files, kb \in InvalidKBs, im \in Images :
           ProcessImage(f, PresetFor(kb, "image/jpeg"), im)
    \/ \E s \in TestSizes : TestBlobCallback(s)
    \/ ToBlobCallbackNull
    \/ \E f \in PdfFiles, kb \in InvalidKBs, n \in 1..MaxPages :
           CompressFullPDF(f, kb, n)
    \/ RenderPageToImage
    \/ \E s \in Sizes : PdfSaved(s)
    \/ \E f \in ImageFiles, kb \in InvalidKBs, im \in Images :
           ConvertImageToPDF(f, kb, im)
    \/ \E s \in Sizes : ImageBlobCallback(s)
    \/ \E s \in Sizes : ToPdfSaved(s)
    \/ \E f \in PdfFiles, n \in 1..MaxPages, kb \in InvalidKBs :
           \E spec \in PageSpecs(n) :
               ExtractAndProcessPages(f, spec, PresetFor(kb, "image/jpeg"), n)
    \/ \E d \in PageDims : PageRendered(d)
    \/ \E s \in TestSizes : PageTestBlobCallback(s)
    \/ PageRenderFails
    \/ PageToBlobNull

SpecInvalid == Init /\ [][NextInvalid]_vars

\* ------------------------------------------- the two searches, one encoder
\* compressImage and the page loop of extractAndProcessPages computed to
\* their end on one surface, with an encoder whose output is fixed by the
\* surface and the quality
SearchSurfaces == {Dims(10 * i, 10) : i \in 1..40}
SearchKBs == {1, 2, 3}

\* the encoder: about one byte per pixel at quality 1.0
EncoderSize(surface, q) == (surface.width * surface.height * q) \div 100

\* compressImage: tryCompress and the toBlob callback, to the settled value
RECURSIVE CompressImageSearch(_, _, _, _, _, _, _)
CompressImageSearch(surface, target, q, it, bBlob, bSize, bQuality) ==
    IF CapReached(it)
    THEN CapResult(target, bBlob, bSize, bQuality)
    ELSE LET size == EncoderSize(surface, q)
             blob == EncodedBlob(size, q)
             track == TracksBest(size, target, bSize)
             nBlob == IF track THEN blob ELSE bBlob
             nSize == IF track THEN size ELSE bSize
             nQuality == IF track THEN q ELSE bQuality
         IN IF InBand(size, target) THEN Result(blob, size, q, FALSE)
            ELSE IF EarlyExit(it, size, target)
            THEN Result(blob, size, q, FALSE)
            ELSE IF size > target
            THEN IF q <= minQuality
                 THEN FloorResult(blob, q, nBlob, nSize, nQuality)
                 ELSE CompressImageSearch(
                          surface, target,
                          QualityDown(q, Reduction(size, target), minQuality),
                          it + 1, nBlob, nSize, nQuality)
            ELSE IF CanRaise(size, target, q)
            THEN CompressImageSearch(surface, target,
                                     Min(maxQuality, q + 5), it + 1,
                                     nBlob, nSize, nQuality)
            ELSE Result(blob, size, q, size > target)

\* the while loop of extractAndProcessPages and the choice after it, to
\* the blob that is pushed or wrapped
RECURSIVE PageLoopSearch(_, _, _, _, _, _, _)
PageLoopSearch(surface, target, q, it, rBlob, bBlob, bSize) ==
    IF ~PageLoopRuns(it)
    THEN UseBest(bBlob, rBlob)
    ELSE LET size == EncoderSize(surface, q)
             blob == EncodedBlob(size, q)
             inBand == InBand(size, target)
             track == inBand \/ TracksBest(size, target, bSize)
             nBlob == IF track THEN blob ELSE bBlob
             nSize == IF track THEN size ELSE bSize
         IN IF inBand THEN UseBest(nBlob, blob)
            ELSE IF EarlyExit(it, size, target) THEN UseBest(nBlob, blob)
            ELSE IF size > target
            THEN IF q <= pageMinQuality
                 THEN UseBest(nBlob, blob)
                 ELSE PageLoopSearch(
                          surface, target,
                          QualityDown(q, Reduction(size, target),
                                      pageMinQuality),
                          it + 1, blob, nBlob, nSize)
            ELSE IF CanRaise(size, target, q)
            THEN PageLoopSearch(surface, target, Min(maxQuality, q + 5),
                                it + 1, blob, nBlob, nSize)
            ELSE UseBest(nBlob, blob)

InitSearches ==
    /\ fn = "none"
    /\ pc = "idle"
    /\ file = NoFile
    /\ preset \in {PresetFor(kb, "image/jpeg") : kb \in SearchKBs}
    /\ img \in SearchSurfaces
    /\ optimalDims = NoDims
    /\ stage = "none"
    /\ quality = 0
    /\ iteration = 0
    /\ bestBlob = NoBlob
    /\ bestSize = 0
    /\ bestQuality = 0
    /\ result = NoResult
    /\ firstResult = NoResult
    /\ outcome = NoOutcome
    /\ progress = -1
    /\ hundreds = 0
    /\ encodes = 0
    /\ testEncoded = FALSE
    /\ runs = 0
    /\ maxUnder = 0
    /\ lastBlob = NoBlob
    /\ pageCount = 0
    /\ pagesToProcess = <<>>
    /\ pageSpec = NoPageSpec
    /\ idx = 0
    /\ results = <<>>
    /\ resultBlob = NoBlob
    /\ pageQualities = <<>>
    /\ AppAtRest

\* both searches are run on the surface: result is what compressImage
\* settles with, resultBlob what the page loop selects
RunSearches ==
    /\ pc = "idle"
    /\ img # NoDims
    /\ fn' = "searches"
    /\ pc' = "selected"
    /\ result' = CompressImageSearch(img, targetSizeBytes, startQuality, 0,
                                     NoBlob, Infinity, startQuality)
    /\ resultBlob' = PageLoopSearch(img, targetSizeBytes, startQuality,
                                    0, NoBlob, NoBlob, Infinity)
    /\ UNCHANGED <<inputVars, optimalDims, stage, searchVars, firstResult,
                   outcome, progress, hundreds, histVars, testEncoded, runs,
                   pageCount, pagesToProcess, pageSpec, idx, results,
                   pageQualities>>
    /\ UNCHANGED appVars

NextSearches == RunSearches

SpecSearches == InitSearches /\ [][NextSearches]_vars


\* ------------------------------------------------------------ all requests
\* ------------------------------------------------------------ application
\* init, the change listeners, processFile and downloadAll of the page
\* script.  A processor call is taken as a whole: it returns its results or
\* throws, or has not ended yet.

\* texts of the target size field, one character per element
TargetInputs == {<<>>, <<"a", "b", "c">>, <<"0">>, <<"-", "5">>, <<" ", "6", "0">>, <<"6", "0", ".", "5">>}
\* the text of the field when the page loads: empty, or a number of KB
InitialTargetInputs == {<<>>, <<" ", "6", "0">>}
AppFormats == {"image/jpeg", "application/pdf"}
\* lengths of the results array a processor call returns
ResultCounts == {1, 2}

DigitChars == <<"0", "1", "2", "3", "4", "5", "6", "7", "8", "9">>
IsDigit(c) == \E d \in 1..10 : DigitChars[d] = c
DigitValue(c) == (CHOOSE d \in 1..10 : DigitChars[d] = c) - 1

NaN == [nan |-> TRUE, value |-> 0]
Number(n) == [nan |-> FALSE, value |-> n]

\* the digits of s from position i on: NaN when there is none
RECURSIVE ParseDigits(_, _, _, _)
ParseDigits(s, i, seen, acc) ==
    IF i <= Len(s) /\ IsDigit(s[i])
    THEN ParseDigits(s, i + 1, TRUE, acc * 10 + DigitValue(s[i]))
    ELSE IF seen THEN Number(acc) ELSE NaN

RECURSIVE SkipSpaces(_, _)
SkipSpaces(s, i) == IF i <= Len(s) /\ s[i] = " " THEN SkipSpaces(s, i + 1) ELSE i

\* parseInt(text): leading blanks, an optional sign, then digits up to the
\* first other character
parseInt(s) ==
    LET i == SkipSpaces(s, 1)
        signed == i <= Len(s) /\ s[i] \in {"-", "+"}
        neg == i <= Len(s) /\ s[i] = "-"
        n == ParseDigits(s, IF signed THEN i + 1 ELSE i, FALSE, 0)
    IN IF n.nan THEN NaN ELSE Number(IF neg THEN 0 - n.value ELSE n.value)

\* parseInt(elements.targetSize.value) || 200
TargetSizeOf(text) ==
    LET n == parseInt(text)
    IN IF n.nan \/ n.value = 0 THEN 200 ELSE n.value

\* mutant: the button is left enabled while the run is in flight
EnabledWhileProcessing == FALSE

\* convertBtn.disabled = true
DisabledWhileProcessing == TRUE

\* mutant: the processors read the settings of the page when they use them
SettingsLive(run, st) == PresetFor(st.targetSizeKB, st.outputFormat)

\* the settings a processor works with: the preset object, respectively
\* the targetSizeKB argument, it was called with
SettingsOf(run, st) == run.preset

\* init(): state is read from the two fields
InitApp ==
    /\ InitProcessors
    /\ \E text \in InitialTargetInputs, fmt \in AppFormats :
           state = [targetSizeKB |-> TargetSizeOf(text), outputFormat |-> fmt]
    /\ fileObjs = [f \in FileIds |-> NoFileObj]
    /\ cards = [f \in FileIds |-> [disabled |-> FALSE]]
    /\ progressHidden = TRUE
    /\ inFlight = [f \in FileIds |-> <<>>]
    /\ zips = 0

\* the change listener of the target size field
TargetSizeChange(text) ==
    /\ state' = [state EXCEPT !.targetSizeKB = TargetSizeOf(text)]
    /\ UNCHANGED <<fileObjs, cards, progressHidden, inFlight, zips, procVars>>

\* the change listener of the output format field
OutputFormatChange(fmt) ==
    /\ state' = [state EXCEPT !.outputFormat = fmt]
    /\ UNCHANGED <<fileObjs, cards, progressHidden, inFlight, zips, procVars>>

\* a click on Convert: processFile up to the await of the processor call.
\* A disabled button dispatches no click.
ProcessFile(f) ==
    /\ ~cards[f].disabled
    /\ Len(inFlight[f]) < MaxRunsPerFile
    /\ cards' = [cards EXCEPT ![f].disabled = DisabledWhileProcessing]
    /\ progressHidden' = FALSE
    /\ inFlight' = [inFlight EXCEPT ![f] =
           Append(@, [preset |-> PresetFor(state.targetSizeKB,
                                           state.outputFormat),
                      clicked |-> state])]
    /\ UNCHANGED <<state, fileObjs, zips, procVars>>

\* the sequence without its i-th element
Without(seq, i) == SubSeq(seq, 1, i - 1) \o SubSeq(seq, i + 1, Len(seq))

\* the processor call of the i-th run of f returns n outcomes: the results
\* are stored, the card shows them, and the finally block runs
ProcessFileDone(f, i, n) ==
    /\ i \in 1..Len(inFlight[f])
    /\ fileObjs' = [fileObjs EXCEPT ![f] =
           [processed |-> TRUE,
            results |-> [len |-> n,
                         preset |-> SettingsOf(inFlight[f][i], state),
                         clicked |-> inFlight[f][i].clicked]]]
    /\ cards' = [cards EXCEPT ![f].disabled = FALSE]
    /\ progressHidden' = TRUE
    /\ inFlight' = [inFlight EXCEPT ![f] = Without(@, i)]
    /\ UNCHANGED <<state, zips, procVars>>

\* the processor call of the i-th run of f throws: the catch block shows
\* the error, and the finally block runs
ProcessFileThrew(f, i) ==
    /\ i \in 1..Len(inFlight[f])
    /\ cards' = [cards EXCEPT ![f].disabled = FALSE]
    /\ progressHidden' = TRUE
    /\ inFlight' = [inFlight EXCEPT ![f] = Without(@, i)]
    /\ UNCHANGED <<state, fileObjs, zips, procVars>>

\* downloadAll up to the await of zip.generateAsync
DownloadAll ==
    /\ \E f \in FileIds : fileObjs[f].processed /\ fileObjs[f].results.len > 0
    /\ zips < MaxZips
    /\ progressHidden' = FALSE
    /\ zips' = zips + 1
    /\ UNCHANGED <<state, fileObjs, cards, inFlight, procVars>>

\* the archive is made (the timer of 2 s has run) or making it threw
DownloadAllDone ==
    /\ zips > 0
    /\ progressHidden' = TRUE
    /\ zips' = zips - 1
    /\ UNCHANGED <<state, fileObjs, cards, inFlight, procVars>>

NextApp ==
    \/ \E text \in TargetInputs : TargetSizeChange(text)
    \/ \E fmt \in AppFormats : OutputFormatChange(fmt)
    \/ \E f \in FileIds : ProcessFile(f)
    \/ \E f \in FileIds, i \in 1..MaxRunsPerFile, n \in ResultCounts :
           ProcessFileDone(f, i, n)
    \/ \E f \in FileIds, i \in 1..MaxRunsPerFile : ProcessFileThrew(f, i)
    \/ DownloadAll
    \/ DownloadAllDone

SpecApp == InitApp /\ [][NextApp]_vars

Next == NextImage \/ NextFullPDF \/ NextToPDF \/ NextPages

Spec == Init /\ [][Next]_vars


\* ================================================================= claims

\* C1: every outcome returned by processImage, extractAndProcessPages,
\* compressFullPDF and convertImageToPDF has newSize <= target or carries
\* the warning, whatever sizes the encoder returned.
C1_NoSilentViolation ==
    /\ outcome.set =>
           (outcome.newSize <= targetSizeBytes \/ outcome.warning)
    /\ \A i \in 1..Len(results) :
           results[i].newSize <= targetSizeBytes \/ results[i].warning

\* the format-conversion path returned a blob that is over target, flagged
C1_Witness ==
    /\ fn = "processImage" /\ stage = "convert" /\ outcome.set
    /\ outcome.blob.size > targetSizeBytes /\ outcome.warning

\* C2 (as stated): on every outcome of processImage, warning is true exactly
\* when newSize > target.
C2_WarningIffOver ==
    (fn = "processImage" /\ outcome.set) =>
        (outcome.warning <=> outcome.newSize > targetSizeBytes)

\* C3: a file within the budget and already in the output format is
\* returned as it is: no encode, no search run, the file itself as blob,
\* newSize = originalSize, newDimensions = originalDimensions, no warning,
\* alreadyOptimal.
C3_Passthrough ==
    (fn = "processImage" /\ file.size <= targetSizeBytes
                         /\ file.type = preset.format) =>
        /\ pc = "returned"
        /\ encodes = 0 /\ ~testEncoded /\ runs = 0
        /\ outcome = Outcome(FileBlob(file), file.size, file.size, img, img,
                             FALSE, TRUE)

\* a file exactly on the budget went through the passthrough
C3_Witness ==
    /\ fn = "processImage" /\ pc = "returned"
    /\ file.size = targetSizeBytes /\ file.type = preset.format
    /\ outcome.alreadyOptimal /\ outcome.blob.kind = "file"

\* position of a running quality search in its run: the round, and
\* whether the round's encode is out
SearchRank == 2 * iteration + (IF pc = "timeout" THEN 0 ELSE 1)

Searching == pc \in {"toBlob", "timeout", "pageToBlob"}

\* C4: one run of the quality search (compressImage, and the loop of
\* extractAndProcessPages for one page) starts at most 25 encodes and
\* ends, whatever sizes the encoder returns: it is never stuck, and every
\* step that does not end it moves it forward in a run of bounded length.
C4_SearchTerminates ==
    /\ [](fn \in {"processImage", "extractAndProcessPages"} =>
              /\ encodes <= maxIterations
              /\ Searching => (SearchRank <= 2 * maxIterations
                                 /\ ENABLED Next))
    /\ [][(Searching /\ Searching') => SearchRank' > SearchRank]_vars

\* a run of compressImage that used all 25 encodes and resolved at the cap
C4_Witness ==
    fn = "processImage" /\ pc = "resolved" /\ encodes = maxIterations

\* position of compressFullPDF in its run: the attempt, then the page
RebuildRank ==
    iteration * (pageCount + 2)
        + (IF pc = "save" THEN pageCount + 1 ELSE idx)

\* C5: compressFullPDF returns after at most 10 rebuilds of the document,
\* whatever sizes the rebuilt documents have: it is never stuck, and every
\* step that does not return moves it forward in a run of bounded length.
C5_RebuildsBounded ==
    /\ [](fn = "compressFullPDF" =>
              /\ encodes <= maxAttempts
              /\ iteration <= maxAttempts
              /\ pc # "returned" => (iteration < maxAttempts
                                       /\ ENABLED Next))
    /\ [][(fn = "compressFullPDF" /\ pc' # "returned")
              => RebuildRank' > RebuildRank]_vars

\* compressFullPDF returned after its tenth rebuild
C5_Witness ==
    fn = "compressFullPDF" /\ pc = "returned" /\ encodes = maxAttempts

\* C6 (as stated): newSize of a processImage outcome is the byte length of
\* the blob it returns.
C6_NewSizeIsBlobSize ==
    (fn = "processImage" /\ outcome.set) =>
        outcome.newSize = outcome.blob.size

\* the closed interval [pct% of target, target] the spec accepts in
Accepted(size, target, pct) == size * 100 >= target * pct /\ size <= target

\* C7: an encode inside the band ends the run: compressImage resolves with
\* exactly that encode, unflagged, and starts no further encode;
\* compressFullPDF returns exactly that attempt, unflagged, and starts no
\* further rebuild.
C7_FirstInBand ==
    /\ (fn = "processImage" /\ Accepted(maxUnder, targetSizeBytes, 85)) =>
           /\ pc \in {"resolved", "returned"}
           /\ lastBlob.size = maxUnder
           /\ result = Result(lastBlob, lastBlob.size, lastBlob.quality,
                              FALSE)
           /\ encodes = iteration + 1
    /\ (fn = "compressFullPDF" /\ Accepted(maxUnder, targetSizeBytes, 90)) =>
           /\ pc = "returned"
           /\ lastBlob.size = maxUnder
           /\ outcome.blob = lastBlob
           /\ outcome.newSize = lastBlob.size
           /\ ~outcome.warning
           /\ encodes = iteration + 1

\* compressImage resolved with an in-band encode that was not its first
C7_Witness ==
    /\ fn = "processImage" /\ pc = "resolved" /\ iteration > 0
    /\ Accepted(lastBlob.size, targetSizeBytes, 85) /\ result.blob = lastBlob

\* C8 (as stated): when compressImage resolves with its tracked best
\* result rather than with the encode just delivered, that result is the
\* largest encode of the run that did not exceed the target.
C8_BestIsClosest ==
    (fn = "processImage" /\ pc = "resolved" /\ bestBlob # NoBlob
        /\ result.blob = bestBlob /\ result.blob # lastBlob) =>
        result.blob.size = maxUnder

\* C9: once an encode of a compressImage run was within the target, the
\* run resolves with a blob within the target.
C9_NoRegression ==
    (fn = "processImage" /\ pc = "resolved" /\ maxUnder > 0) =>
        /\ result.blob # NoBlob
        /\ result.blob.size <= targetSizeBytes

\* the run ended on an over-target encode after an earlier one was within
C9_Witness ==
    /\ fn = "processImage" /\ pc = "resolved" /\ maxUnder > 0
    /\ lastBlob.size > targetSizeBytes
    /\ result.blob.size <= targetSizeBytes

\* C10 (as stated): processImage runs compressImage at most twice, the
\* second time only after a first result over target, and then returns
\* the attempt whose blob is the smaller.
C10_TwoStage ==
    fn = "processImage" =>
        /\ runs <= 2
        /\ (stage = "retry" => firstResult.blob.size > targetSizeBytes)
        /\ (stage = "retry" /\ pc = "returned") =>
               outcome.blob.size = Min(firstResult.blob.size,
                                       result.blob.size)

\* the sides w x h keep the ratio W : H when some real scale puts both
\* within one pixel of the scaled source
AspectKept(new, orig) ==
    /\ (new.width - 1) * orig.height <= (new.height + 1) * orig.width
    /\ (new.height - 1) * orig.width <= (new.width + 1) * orig.height

\* C11 (as stated): newDimensions of every processImage outcome keeps the
\* aspect ratio of originalDimensions up to the rounding of each side.
C11_AspectRatioKept ==
    (fn = "processImage" /\ outcome.set) =>
        AspectKept(outcome.newDimensions, outcome.originalDimensions)

\* C12 (as stated): the dimensions planned by calculateOptimalDimensions
\* and by the per-page planner lie inside the preset box.
C12_InsideBox ==
    pc = "planned" =>
        /\ optimalDims.width <= preset.widthPx
        /\ optimalDims.height <= preset.heightPx

\* C13: when extractAndProcessPages returns, pageSpec 'all' on an n-page
\* document gave exactly n outcomes with pageNum 1..n in this order, and a
\* page number p gave exactly one outcome, with pageNum = p.
C13_ResultShape ==
    (fn = "extractAndProcessPages" /\ pc = "returned") =>
        IF pageSpec.all
        THEN /\ Len(results) = pageCount
             /\ \A i \in 1..pageCount : results[i].pageNum = i
        ELSE /\ Len(results) = 1
             /\ results[1].pageNum = pageSpec.page

\* a single page that is not the first was asked for and returned
C13_Witness ==
    /\ fn = "extractAndProcessPages" /\ pc = "returned"
    /\ ~pageSpec.all /\ pageSpec.page > 1
    /\ Len(results) = 1

\* C14 (as stated): with pageSpec 'all' the call never ends by dropping
\* the pages: it does not reject as a whole, and when it returns every page
\* of the document has been gone through.
C14_FailureIsolated ==
    (fn = "extractAndProcessPages" /\ pageSpec.all) =>
        /\ pc # "rejected"
        /\ pc = "returned" => idx = pageCount

\* C15 (as stated): a processImage call whose compressImage was delivered
\* no blob does not stay pending: as long as the call has neither returned
\* nor rejected, some step of it can still happen.
C15_EncodeFailureSettles ==
    (fn = "processImage" /\ pc \notin {"returned", "rejected"}) =>
        ENABLED NextImage

\* C16 (as stated): a call of one of the four entry points with a target
\* size that is not positive is rejected before any decode, render or
\* encode: it is never in any other position than rejected.
C16_InvalidPresetRejected ==
    (fn \in {"processImage", "extractAndProcessPages", "compressFullPDF",
             "convertImageToPDF"} /\ preset.maxSizeKB <= 0) =>
        /\ pc = "rejected"
        /\ encodes = 0 /\ ~testEncoded

\* C17 (as stated): within one call the values passed to onProgress never
\* decrease.
C17_ProgressMonotone == [][progress' >= progress]_vars

\* C18 (as stated): a processImage call that returns has reported 100
\* exactly once, and once 100 is reported the call does nothing more.
C18_ProgressCompletes ==
    fn = "processImage" =>
        /\ pc = "returned" => hundreds = 1
        /\ hundreds > 0 => pc = "returned"

\* a compressImage run resolved and none of its encodes was in the band
EndedOutsideBand ==
    /\ fn = "processImage" /\ pc = "resolved"
    /\ ~Accepted(maxUnder, targetSizeBytes, 85)

\* C19 (as stated): a compressImage run that ends with no encode in the
\* band, at the iteration cap, the quality floor or the quality ceiling
\* (that is, not at the early exit of its first round), resolves with
\* warning = true.
C19_UnreachableFlagged ==
    (EndedOutsideBand /\ iteration > 0) => result.warning

\* C19 (amended): a compressImage run that ends with no encode in the band
\* resolves with a blob, and with warning = true exactly when it stopped at
\* the quality floor on an over-target encode; a run that stopped at the
\* early exit, the quality ceiling or the iteration cap resolves with a
\* blob within the target, unflagged.
C19_UnreachableResolves ==
    EndedOutsideBand =>
        /\ result.blob # NoBlob
        /\ result.warning <=> (lastBlob.size > targetSizeBytes)
        /\ ~result.warning => result.blob.size <= targetSizeBytes

\* a run stopped at the quality ceiling below the band and resolved
\* unflagged
C19_Witness ==
    /\ EndedOutsideBand /\ quality = maxQuality /\ iteration > 0
    /\ result.blob = lastBlob
    /\ lastBlob.size * 100 < targetSizeBytes * 85
    /\ ~result.warning

\* C20: when a rebuild attempt of a compressFullPDF run was within the
\* target, the outcome returned has newSize <= target and no warning, and
\* its newSize is the size of the blob returned.
C20_KeepsWorkingAttempt ==
    (fn = "compressFullPDF" /\ pc = "returned" /\ maxUnder > 0) =>
        /\ outcome.newSize <= targetSizeBytes
        /\ outcome.blob.size = outcome.newSize
        /\ ~outcome.warning

\* the last attempt was over target after an earlier one was within it,
\* and the earlier one is what was returned
C20_Witness ==
    /\ fn = "compressFullPDF" /\ pc = "returned" /\ maxUnder > 0
    /\ lastBlob.size > targetSizeBytes
    /\ outcome.blob # lastBlob
    /\ outcome.newSize <= targetSizeBytes

\* C21: within one rebuild attempt of compressFullPDF every page is
\* rendered at the same quality, the attempt's; when the attempt is saved
\* all pages of the document have been rendered at it.
C21_UniformQuality ==
    (fn = "compressFullPDF" /\ pc \in {"renderPage", "save"}) =>
        /\ \A i \in 1..Len(pageQualities) : pageQualities[i] = quality
        /\ pc = "save" => Len(pageQualities) = pageCount

\* a later attempt of a document of several pages is about to be saved
C21_Witness ==
    /\ fn = "compressFullPDF" /\ pc = "save"
    /\ iteration > 0 /\ quality # pdfStartQuality
    /\ pageCount > 1 /\ Len(pageQualities) = pageCount

\* encodes of the running compressImage call that were handed to the
\* encoder and whose callback has not run: every callback that went on
\* raised iteration by one, the one that settled the promise did not
Outstanding == encodes - iteration - (IF pc = "resolved" /\ lastBlob # NoBlob THEN 1 ELSE 0)

\* C22: within one compressImage call at most one encode is outstanding
\* (exactly one while the encoder works, none when the next tryCompress is
\* scheduled or the promise is settled); an encode is started only by the
\* tryCompress that the previous callback scheduled; once the promise is
\* settled its value does not change and no encode is started.
C22_SequentialEncodes ==
    /\ [](fn = "processImage" =>
              /\ pc = "toBlob" => Outstanding = 1
              /\ pc = "timeout" => Outstanding = 0
              /\ pc = "resolved" => (Outstanding = 0 /\ result.set))
    /\ [][(fn = "processImage" /\ stage' = stage /\ encodes' # encodes)
              => (pc = "timeout" /\ encodes' = encodes + 1)]_vars
    /\ [][(fn = "processImage" /\ pc = "resolved" /\ stage' = stage)
              => (result' = result /\ encodes' = encodes)]_vars

\* a call settled by the callback of its fourth encode
C22_Witness ==
    /\ fn = "processImage" /\ pc = "resolved"
    /\ encodes = 4 /\ iteration = 3 /\ result.blob = lastBlob

\* C23: a file within the budget whose type differs from the output format
\* is only converted: no test encode, no planning, exactly one search run,
\* on the image at its original width and height, and the outcome's
\* newDimensions are the originalDimensions.
C23_ConvertOnly ==
    (fn = "processImage" /\ file.size <= targetSizeBytes
                         /\ file.type # preset.format) =>
        /\ ~testEncoded /\ optimalDims = NoDims
        /\ stage = "convert" /\ runs = 1
        /\ pc \in {"toBlob", "timeout", "resolved", "returned", "callbackThrew"}
        /\ pc = "returned" =>
               /\ outcome.originalDimensions = img
               /\ outcome.newDimensions = outcome.originalDimensions
               /\ outcome.blob = result.blob /\ outcome.newSize = result.size

\* a file exactly on the budget was converted after a search of its own
C23_Witness ==
    /\ fn = "processImage" /\ pc = "returned"
    /\ file.size = targetSizeBytes /\ file.type # preset.format
    /\ encodes > 1 /\ outcome.blob.kind = "encode"
    /\ outcome.newDimensions = img

\* C24: when an encode of compressImage is over the target and the quality
\* is above 0.3, the next encode is made at max(0.3, quality - 0.15) if the
\* encode is over twice the target and at max(0.3, quality - 0.08)
\* otherwise; when it is over the target at quality 0.3 the promise is
\* settled and no further encode is made.
C24_StepDown ==
    [][\A size \in Sizes :
           (ToBlobCallback(size) /\ size > targetSizeBytes) =>
               IF quality > 30
               THEN /\ pc' = "timeout" /\ iteration' = iteration + 1
                    /\ quality' = IF size > 2 * targetSizeBytes
                                  THEN Max(30, quality - 15)
                                  ELSE Max(30, quality - 8)
               ELSE /\ pc' = "resolved" /\ result'.set
                    /\ quality' = 30 /\ iteration' = iteration]_vars

\* the search went down to the floor in more rounds than large steps alone
\* take, and the encode at the floor was over the target
C24_Witness ==
    /\ fn = "processImage" /\ pc = "resolved"
    /\ quality = 30 /\ iteration = 7
    /\ lastBlob.size > targetSizeBytes /\ result.warning

\* C25: when an encode of compressImage is below 0.85 of the target, the
\* first-encode early exit does not apply and the quality is below 0.98,
\* the next encode is made at min(0.98, quality + 0.05); at quality 0.98
\* the search stops and the current encode is returned with warning false.
C25_Raise ==
    [][\A size \in Sizes :
           (/\ ToBlobCallback(size)
            /\ size * 100 < targetSizeBytes * 85
            /\ ~(iteration = 0 /\ size * 200 < targetSizeBytes * 85)) =>
               IF quality < 98
               THEN /\ pc' = "timeout" /\ iteration' = iteration + 1
                    /\ quality' = Min(98, quality + 5)
               ELSE /\ pc' = "resolved" /\ iteration' = iteration
                    /\ result' = Result(EncodedBlob(size, quality), size,
                                        quality, FALSE)]_vars

\* the search was raised to the ceiling and the encode made there, still
\* below the band, was returned
C25_Witness ==
    /\ fn = "processImage" /\ pc = "resolved"
    /\ quality = 98 /\ iteration >= 2
    /\ lastBlob.size * 100 < targetSizeBytes * 85
    /\ result = Result(lastBlob, lastBlob.size, 98, FALSE)

\* C26: when the first encode of compressImage (quality 0.92) is below half
\* of 0.85 of the target, the promise is settled with that encode, after
\* exactly one encode, with warning false; an encode that small in a later
\* round does not end the search while the quality can still be raised.
C26_EarlyExit ==
    [][\A size \in Sizes :
           (ToBlobCallback(size) /\ size * 200 < targetSizeBytes * 85) =>
               IF iteration = 0
               THEN /\ quality = 92 /\ encodes = 1
                    /\ pc' = "resolved" /\ encodes' = 1
                    /\ result' = Result(EncodedBlob(size, 92), size, 92,
                                        FALSE)
               ELSE quality < 98 =>
                        (pc' = "timeout" /\ result' = NoResult)]_vars

\* a call settled by the early exit on its only encode
C26_Witness ==
    /\ fn = "processImage" /\ pc = "resolved"
    /\ iteration = 0 /\ encodes = 1
    /\ result.size * 200 < targetSizeBytes * 85
    /\ result = Result(lastBlob, lastBlob.size, 92, FALSE)

\* C27: every encode of compressImage and of the page loop of
\* extractAndProcessPages is made at a quality in [0.3, 0.98], the first of
\* a run at 0.92; every rebuild of compressFullPDF is made at a quality in
\* [0.2, 0.85], the first at 0.75.
C27_QualityRange ==
    /\ (fn = "processImage" /\ pc = "toBlob") =>
           /\ quality >= 30 /\ quality <= 98
           /\ iteration = 0 => quality = 92
    /\ (fn = "extractAndProcessPages" /\ pc = "pageToBlob") =>
           /\ quality >= 30 /\ quality <= 98
           /\ iteration = 0 => quality = 92
    /\ (fn = "compressFullPDF" /\ pc \in {"renderPage", "save"}) =>
           /\ quality >= 20 /\ quality <= 85
           /\ iteration = 0 => quality = 75

\* a rebuild at the lowest quality of compressFullPDF, reached from 0.75
C27_Witness ==
    /\ fn = "compressFullPDF" /\ pc = "save"
    /\ quality = 20 /\ iteration >= 6

\* C28 (as stated): on the same surface, format and target and with the
\* same encoder, the blob selected by the page loop of
\* extractAndProcessPages is the encode compressImage settles with: the same
\* quality and the same size.
C28_PageLoopRefines ==
    (fn = "searches" /\ pc = "selected") => resultBlob = result.blob

\* x / y = a / b for two planned sides x = sqrt(x.n / x.d) and
\* y = sqrt(y.n / y.d), the common factors taken out before multiplying
SidesInRatio(x, y, a, b) ==
    LET g == GCD(x.n, y.n)
        h == GCD(x.d, y.d)
    IN (x.n \div g) * (y.d \div h) * b * b = (y.n \div g) * (x.d \div h) * a * a

\* x * y is within one percent of p, for the same two sides
AreaNear(x, y, p) ==
    LET g1 == GCD(x.n, p)
        g2 == GCD(y.n, p)
        l == (x.n \div g1) * (y.n \div g2)
        r == (p \div g1) * (p \div g2) * x.d * y.d
    IN 9801 * r <= 10000 * l /\ 10000 * l <= 10201 * r

\* C30 (as stated): the width and height planned for a page before the max
\* constraints and the minimum dimensions satisfy width / height = page
\* aspect ratio and width * height = targetPixels (here: within one
\* percent), for every page aspect ratio.
C30_PagePlannedArea ==
    [][\A s \in PlanTestSizes :
           PlanPage(s) =>
               LET raw == PageRawPlan(img.width, img.height, s,
                                      targetSizeBytes)
               IN raw.targetPixels > 0 =>
                      /\ SidesInRatio(raw.width, raw.height,
                                      img.width, img.height)
                      /\ AreaNear(raw.width, raw.height,
                                  raw.targetPixels)]_vars

\* C29 (as stated): when compressFullPDF returns without an attempt in the
\* band [0.9 * target, target] and at least one attempt was not over the
\* target, the returned blob is the largest of the attempts of the run that
\* were not over the target.
C29_BestAttemptIsLargest ==
    (/\ fn = "compressFullPDF" /\ pc = "returned" /\ outcome.set
     /\ maxUnder > 0 /\ maxUnder * 10 < targetSizeBytes * 9) =>
        /\ outcome.newSize = maxUnder
        /\ outcome.blob.size = maxUnder

\* C31: compressImage never settles with a null blob when every encode
\* delivers one: a run in which no encode is within the target makes at
\* most 9 encodes and settles at quality 0.3 with the over-target encode
\* made there as blob, never through the iteration cap.
C31_NoNullBlob ==
    (fn = "processImage" /\ pc \in {"toBlob", "timeout", "resolved"}) =>
        /\ result.set => result.blob # NoBlob
        /\ maxUnder = 0 =>
               /\ encodes <= 9
               /\ ~CapReached(iteration)
               /\ pc = "resolved" =>
                      /\ quality = 30
                      /\ result.blob = lastBlob /\ result.warning

\* nine encodes, all over the target, the last one at the floor
C31_Witness ==
    /\ fn = "processImage" /\ pc = "resolved"
    /\ maxUnder = 0 /\ encodes = 9 /\ quality = 30
    /\ result.blob = lastBlob /\ lastBlob.size > targetSizeBytes

\* C32 (as stated): in convertImageToPDF the bytes handed to the document
\* builder go to the embed operation of their own encoding, JPEG bytes to
\* embedJpg and PNG bytes to embedPng, so that no accepted image ends in an
\* embed-format mismatch.
C32_EmbedMatchesEncoding ==
    (fn = "convertImageToPDF" /\ stage # "none") =>
        /\ stage = "embedJpg" => toPdfEncodeFormat = "image/jpeg"
        /\ stage = "embedPng" => toPdfEncodeFormat = "image/png"
        /\ pc # "threw"

\* C33 (as stated): the quality loop of convertImageToPDF makes no encode
\* below its minQuality of 0.3, and at most 20 encodes.
C33_ToPdfQualityFloor ==
    (fn = "convertImageToPDF" /\ pc = "imageBlob") =>
        /\ quality >= toPdfMinQuality
        /\ encodes <= toPdfMaxIterations

\* C34 (as stated): processImage never enlarges the source: the dimensions
\* planned by calculateOptimalDimensions, which processImage resizes to and
\* reports as newDimensions, do not exceed the source's width and height.
C34_NoUpscaling ==
    (fn = "calculateOptimalDimensions" /\ pc = "planned"
                                       /\ optimalDims # NaNDims) =>
        /\ optimalDims.width <= img.width
        /\ optimalDims.height <= img.height

\* C35: a processFile run works with the target size and output format
\* that were in state when Convert was clicked, for the size budget, the
\* format and the max-dimension box; changes of either setting while the
\* run is in flight alter neither the run's preset nor the stored result.
C35_SettingsSnapshot ==
    \A f \in FileIds :
        /\ \A i \in 1..Len(inFlight[f]) :
               LET run == inFlight[f][i]
               IN /\ run.preset.maxSizeKB = run.clicked.targetSizeKB
                  /\ run.preset.format = run.clicked.outputFormat
                  /\ run.preset = PresetFor(run.clicked.targetSizeKB,
                                            run.clicked.outputFormat)
        /\ fileObjs[f].processed =>
               LET r == fileObjs[f].results
               IN /\ r.preset.maxSizeKB = r.clicked.targetSizeKB
                  /\ r.preset.format = r.clicked.outputFormat
                  /\ r.preset = PresetFor(r.clicked.targetSizeKB,
                                          r.clicked.outputFormat)

\* both settings were changed during a run, after an earlier run of the
\* same file had stored results under other settings again
C35_Witness ==
    \E f \in FileIds :
        /\ Len(inFlight[f]) = 1
        /\ inFlight[f][1].clicked.targetSizeKB # state.targetSizeKB
        /\ inFlight[f][1].clicked.outputFormat # state.outputFormat
        /\ fileObjs[f].processed
        /\ fileObjs[f].results.clicked # inFlight[f][1].clicked

\* C36 (as stated): while at least one processFile run is in flight the
\* shared progress section is visible.
C36_ProgressShownWhileRunning ==
    (\E f \in FileIds : inFlight[f] # <<>>) => ~progressHidden

\* C37: at most one processFile run per file is in flight; the Convert
\* button of a file is disabled exactly while its run is in flight, so it
\* is enabled again when the run has ended, returned or thrown; processed
\* is true only with a non-empty results array stored.
C37_OneRunPerFile ==
    \A f \in FileIds :
        /\ Len(inFlight[f]) <= 1
        /\ cards[f].disabled <=> Len(inFlight[f]) = 1
        /\ fileObjs[f].processed => fileObjs[f].results.len > 0

\* one file's run has ended and its button is enabled again while the
\* other file's run is in flight with its button disabled
C37_Witness ==
    \E f, g \in FileIds :
        /\ fileObjs[f].processed /\ inFlight[f] = <<>> /\ ~cards[f].disabled
        /\ Len(inFlight[g]) = 1 /\ cards[g].disabled

\* C38 (as stated): state.targetSizeKB is a positive integer after init
\* and after every change of the target size field, and so is maxSizeKB of
\* every preset processFile builds.
C38_TargetSizePositive ==
    /\ state.targetSizeKB > 0
    /\ \A f \in FileIds : \A i \in 1..Len(inFlight[f]) :
           inFlight[f][i].preset.maxSizeKB > 0

=============================================================================
